---------------------------- MODULE Spec2Model ----------------------------
(***************************************************************************)
(* LSB steganography tool (src/steganography.py, class SteganographyTool). *)
(*                                                                         *)
(* Representation.                                                         *)
(*  - A bit string (Python str of '0'/'1') is a sequence over {0, 1}.      *)
(*  - A text / filename (Python str) is a sequence of code points; file    *)
(*    data (bytes) is a sequence over 0..255.                              *)
(*  - The pixel array (numpy, shape (height, width, 3), dtype uint8) is    *)
(*    the sequence of its values in row-major order, see Idx.              *)
(*  - The header's start_pos / end_pos are Python integers that may exceed *)
(*    the 32-bit integers TLC computes with.  They are kept as two limbs   *)
(*    <<hi, lo>> with value hi * 65536 + lo and 0 <= lo < 65536.           *)
(*  - The file system and the image container (PIL open / save as PNG,     *)
(*    which is lossless) are outside the model: extract_file's result is   *)
(*    what it hands to the file writer.                                    *)
(***************************************************************************)
EXTENDS Integers, Sequences, FiniteSets, TLC

VARIABLES
    pc,              \* the operation that ran last
    width, height,   \* dimensions of the pixel array
    storage_method,  \* storage_method argument
    positions,       \* value returned by _get_pixel_positions
    src_array,       \* the pixel array as loaded, before any embedding
    img_array,       \* the pixel array of the current (stego) image
    bits,            \* bit string handed to _embed_bits_in_image
    error,           \* "none" or the error raised by the last operation
    start_bit, end_bit, \* range handed to _extract_bits_from_image
    extracted,       \* value returned by _extract_bits_from_image
    is_file, filename, start_pos, end_pos, \* header fields handed to _create_header
    header,          \* value returned by _create_header
    metadata,        \* value returned by _parse_header
    payload,         \* file data (hide_file) or text (hide_text)
    out              \* what extract_file found and handed to the writer

vars == <<pc, width, height, storage_method, positions, src_array, img_array,
          bits, error, start_bit, end_bit, extracted, is_file, filename,
          start_pos, end_pos, header, metadata, payload, out>>

gridVars == <<width, height, src_array, img_array>>
embedVars == <<bits, error, start_bit, end_bit, extracted>>
headerVars == <<is_file, filename, start_pos, end_pos, header, metadata>>

---------------------------------------------------------------------------
(* Bounds of the model.                                                    *)

\* _get_pixel_positions is explored for 1..MaxW x 1..MaxH.
MaxW == 6
MaxH == 6

\* The longest filename handed to _create_header has
\* MAX_FILENAME_LENGTH + LongNameExtra characters.
LongNameExtra == 36

\* _embed_bits_in_image / _extract_bits_from_image are explored on arrays of
\* 1..EmbedMaxW x 1..EmbedMaxH pixels.
EmbedMaxW == 3
EmbedMaxH == 3

\* hide_file / hide_text / extract_file run on a 1x1 array, a SmallW x SmallH
\* array, a MidW x MidH array (room for a header under ALL only) and a
\* GridW x GridH array (room for a header under every method).
SmallW == 3
SmallH == 3
MidW == 14
MidH == 14
GridW == 98
GridH == 4

\* Extracted ranges [s, e] have e - s <= MaxSpan, or end at the last embedded bit.
MaxSpan == 1

---------------------------------------------------------------------------
(* Program constants.                                                      *)

HEADER_SIZE_BITS == 1 + 3 + (64 * 8) + 32 + 32

MAX_FILENAME_LENGTH == 64

Methods == 0..3

Min(a, b) == IF a < b THEN a ELSE b

---------------------------------------------------------------------------
(* _get_pixel_positions                                                    *)

\* The concatenation ss[lo] \o ... \o ss[hi], by halving the range.
RECURSIVE FlattenRange(_, _, _)
FlattenRange(ss, lo, hi) ==
    IF lo > hi THEN <<>>
    ELSE IF lo = hi THEN ss[lo]
    ELSE LET mid == (lo + hi) \div 2
         IN FlattenRange(ss, lo, mid) \o FlattenRange(ss, mid + 1, hi)

\* What a loop leaves in a list when its k-th iteration appends ss[k].
Flatten(ss) == FlattenRange(ss, 1, Len(ss))

\* for y in range(height): for x in range(width): positions.append((x, y))
ScanAll(w, h) ==
    Flatten([y1 \in 1..h |-> [x1 \in 1..w |-> <<x1 - 1, y1 - 1>>]])

\* count = 0; for y in range(height): for x in range(width):
\*     if count % 2 == 0: positions.append((x, y)); count += 1
\* At the visit of (x, y) the counter is y * width + x.
ScanEven(w, h) ==
    Flatten([y1 \in 1..h |->
        Flatten([x1 \in 1..w |->
            LET count == (y1 - 1) * w + (x1 - 1)
            IN IF count % 2 = 0 THEN <<<<x1 - 1, y1 - 1>>>> ELSE <<>>])])

\* the same loops with `if count % 2 == 1`
ScanOdd(w, h) ==
    Flatten([y1 \in 1..h |->
        Flatten([x1 \in 1..w |->
            LET count == (y1 - 1) * w + (x1 - 1)
            IN IF count % 2 = 1 THEN <<<<x1 - 1, y1 - 1>>>> ELSE <<>>])])

\* for x in range(width): append (x, 0); if height > 1: append (x, height-1)
TopBottomLoop(w, h) ==
    Flatten([x1 \in 1..w |->
        <<<<x1 - 1, 0>>>> \o (IF h > 1 THEN <<<<x1 - 1, h - 1>>>> ELSE <<>>)])

\* for y in range(1, height-1): append (0, y); if width > 1: append (width-1, y)
SidesLoop(w, h) ==
    Flatten([y \in 1..(h - 2) |->
        <<<<0, y>>>> \o (IF w > 1 THEN <<<<w - 1, y>>>> ELSE <<>>)])

\* A BORDER traversal that forgets the `if height > 1` guard.
GetPixelPositions_noGuard(w, h, method) ==
    IF method = 0 THEN ScanAll(w, h)
    ELSE IF method = 1 THEN ScanEven(w, h)
    ELSE IF method = 2 THEN ScanOdd(w, h)
    ELSE IF method = 3 THEN TopBottomLoop(w, 2) \o SidesLoop(w, h)
    ELSE <<>>

GetPixelPositions(w, h, method) ==
    IF method = 0 THEN ScanAll(w, h)
    ELSE IF method = 1 THEN ScanEven(w, h)
    ELSE IF method = 2 THEN ScanOdd(w, h)
    ELSE IF method = 3 THEN TopBottomLoop(w, h) \o SidesLoop(w, h)
    ELSE <<>>

---------------------------------------------------------------------------
(* Python integers of the header, as two limbs <<hi, lo>>.                 *)

Big(n) == <<n \div 65536, n % 65536>>

BigLE(a, b) == a[1] < b[1] \/ (a[1] = b[1] /\ a[2] <= b[2])

\* a + n for a small non-negative n
BigAdd(a, n) == <<a[1] + ((a[2] + n) \div 65536), (a[2] + n) % 65536>>

\* a - 1 for a > 0
BigPred(a) == IF a[2] > 0 THEN <<a[1], a[2] - 1>> ELSE <<a[1] - 1, 65535>>

\* 8 * n as limbs (the bit length of n bytes)
BigTimes8(n) == <<n \div 8192, (n % 8192) * 8>>

---------------------------------------------------------------------------
(* Bit codec: format(n, '0<w>b'), int(s, 2), _text_to_bits, _bits_to_text  *)

\* bin(n) without prefix: the binary digits of n >= 0, most significant first
RECURSIVE BinDigits(_)
BinDigits(n) == IF n < 2 THEN <<n>> ELSE BinDigits(n \div 2) \o <<n % 2>>

Zeros(n) == [i \in 1..n |-> 0]

\* format(n, '0<w>b'): zero-padded on the left to AT LEAST w digits
FormatB(n, w) ==
    LET d == BinDigits(n)
    IN IF Len(d) < w THEN Zeros(w - Len(d)) \o d ELSE d

\* format(v, '032b') for a limb value: the digits of hi (at least 16, more
\* when v >= 2^32) followed by the 16 digits of lo.
Format032(v) == FormatB(v[1], 16) \o FormatB(v[2], 16)

\* int(s, 2)
RECURSIVE IntOfBits(_)
IntOfBits(s) ==
    IF s = <<>> THEN 0
    ELSE 2 * IntOfBits(SubSeq(s, 1, Len(s) - 1)) + s[Len(s)]

\* int(s, 2) of a 32-digit string, as limbs
BigOfBits32(s) == <<IntOfBits(SubSeq(s, 1, 16)), IntOfBits(SubSeq(s, 17, 32))>>

\* Python slice s[a:b] (0-based, end exclusive, clamped to the string)
Slice(s, a, b) == SubSeq(s, a + 1, Min(b, Len(s)))

\* ''.join(format(ord(char), '08b') for char in text)
TextToBits(text) == Flatten([i \in 1..Len(text) |-> FormatB(text[i], 8)])

\* for i in range(0, len(bits), 8): if len(byte) == 8: chr(int(byte, 2))
BitsToText(b) ==
    [i \in 1..(Len(b) \div 8) |-> IntOfBits(SubSeq(b, 8 * i - 7, 8 * i))]

\* ''.join(format(byte, '08b') for byte in file_data)
FileToBits(file_data) == TextToBits(file_data)

\* while len(bits) % 8 != 0: bits += '0' ; one byte per group of 8
BitsToFile(b) == BitsToText(b \o Zeros((8 - (Len(b) % 8)) % 8))

\* str.rstrip(ch): up to the last character that is not ch
RStrip(s, ch) ==
    LET other == {i \in 1..Len(s) : s[i] # ch}
    IN IF other = {} THEN <<>>
       ELSE SubSeq(s, 1, CHOOSE i \in other : \A j \in other : j <= i)

\* str.ljust(n, ch)
LJust(s, n, ch) == IF Len(s) < n THEN s \o [i \in 1..(n - Len(s)) |-> ch] ELSE s

NUL == 0

---------------------------------------------------------------------------
(* _create_header, _parse_header                                           *)

\* A header builder that pads the filename without truncating it first.
CreateHeader_noTruncate(isFile, method, name, startPos, endPos) ==
    <<IF isFile THEN 1 ELSE 0>>
    \o FormatB(method, 3)
    \o TextToBits(LJust(name, MAX_FILENAME_LENGTH, NUL))
    \o Format032(startPos)
    \o Format032(endPos)

CreateHeader(isFile, method, name, startPos, endPos) ==
    <<IF isFile THEN 1 ELSE 0>>
    \o FormatB(method, 3)
    \o TextToBits(LJust(Slice(name, 0, MAX_FILENAME_LENGTH), MAX_FILENAME_LENGTH, NUL))
    \o Format032(startPos)
    \o Format032(endPos)

\* if len(header_bits) < self.HEADER_SIZE_BITS: raise ValueError
ParseHeaderRaises(header_bits) == Len(header_bits) < HEADER_SIZE_BITS

\* A parser that reads the storage method one bit too far to the left.
ParseHeader_shifted(header_bits) ==
    [is_file |-> header_bits[1] = 1,
     storage_method |-> IntOfBits(Slice(header_bits, 0, 3)),
     filename |-> RStrip(BitsToText(Slice(header_bits, 4, 4 + 64 * 8)), NUL),
     start_pos |-> BigOfBits32(Slice(header_bits, 4 + 64 * 8, 4 + 64 * 8 + 32)),
     end_pos |-> BigOfBits32(Slice(header_bits, 4 + 64 * 8 + 32, 4 + 64 * 8 + 32 + 32))]

\* The dict returned when the length check passes; offsets 0, 1, 4, 516, 548.
ParseHeader(header_bits) ==
    [is_file |-> header_bits[1] = 1,
     storage_method |-> IntOfBits(Slice(header_bits, 1, 1 + 3)),
     filename |-> RStrip(BitsToText(Slice(header_bits, 4, 4 + 64 * 8)), NUL),
     start_pos |-> BigOfBits32(Slice(header_bits, 4 + 64 * 8, 4 + 64 * 8 + 32)),
     end_pos |-> BigOfBits32(Slice(header_bits, 4 + 64 * 8 + 32, 4 + 64 * 8 + 32 + 32))]

---------------------------------------------------------------------------
(* Pixel array, _embed_bits_in_image, _extract_bits_from_image             *)

\* img_array[pos_y, pos_x, channel] in the row-major sequence
Idx(x, y, channel, w) == (y * w + x) * 3 + channel + 1

\* A write that stores the bit as the whole channel value.
SetLSB_assign(v, bit) == bit

\* (v & 0xFE) | bit
SetLSB(v, bit) == 2 * (v \div 2) + bit

\* v & 1
LSB(v) == v % 2

\* if bit_index < len(bits): img_array[y, x, channel] = ... ; bit_index += 1
WriteChannel(arr, x, y, channel, w, bs, bit_index) ==
    IF bit_index < Len(bs)
    THEN [arr EXCEPT ![Idx(x, y, channel, w)] = SetLSB(@, bs[bit_index + 1])]
    ELSE arr

\* The iteration of `for pos_x, pos_y in positions` at the r-th position.
\* bit_index is 3 * (r - 1) there, every earlier iteration having advanced
\* it by 3; with bit_index >= len(bits) the loop breaks and the array stays.
EmbedStep(arr, pos, r, w, bs) ==
    LET bit_index == 3 * (r - 1)
        x == pos[r][1]
        y == pos[r][2]
        a0 == WriteChannel(arr, x, y, 0, w, bs, bit_index)
        a1 == WriteChannel(a0, x, y, 1, w, bs, bit_index + 1)
    IN IF bit_index >= Len(bs) THEN arr
       ELSE WriteChannel(a1, x, y, 2, w, bs, bit_index + 2)

\* The iterations lo..hi of the loop, in order, by halving the range.  (The
\* test on `first` only makes the first half's array a value before the
\* second half starts from it; it always holds.)
RECURSIVE EmbedLoop(_, _, _, _, _, _)
EmbedLoop(arr, pos, lo, hi, w, bs) ==
    IF lo > hi THEN arr
    ELSE IF lo = hi THEN EmbedStep(arr, pos, lo, w, bs)
    ELSE LET mid == (lo + hi) \div 2
             first == EmbedLoop(arr, pos, lo, mid, w, bs)
         IN IF Len(first) = Len(arr)
            THEN EmbedLoop(first, pos, mid + 1, hi, w, bs)
            ELSE first

\* A capacity check that also refuses an exact fit.
EmbedRaises_strict(w, h, bs, method) == Len(GetPixelPositions(w, h, method)) * 3 <= Len(bs)

\* if len(positions) * 3 < len(bits): raise ValueError(... required, available)
EmbedRaises(w, h, bs, method) == Len(GetPixelPositions(w, h, method)) * 3 < Len(bs)

CapacityError(w, h, bs, method) ==
    [kind |-> "InsufficientCapacity",
     required |-> Len(bs),
     available |-> Len(GetPixelPositions(w, h, method)) * 3]

\* The array returned when the capacity check passes.
EmbedBitsInImage(arr, w, h, bs, method) ==
    LET pos == GetPixelPositions(w, h, method)
    IN EmbedLoop(arr, pos, 1, Len(pos), w, bs)

\* What the channel loop appends at the r-th position: the LSB of each
\* channel whose bit_index = 3 * (r - 1) + channel lies in [start_bit,
\* end_bit].  (The two `break`s leave the loops once bit_index > end_bit,
\* where nothing more would be appended.)
ExtractStep(arr, pos, r, w, startBit, endBit) ==
    Flatten([c1 \in 1..3 |->
        LET bit_index == Big(3 * (r - 1) + (c1 - 1))
        IN IF BigLE(startBit, bit_index) /\ BigLE(bit_index, endBit)
           THEN <<LSB(arr[Idx(pos[r][1], pos[r][2], c1 - 1, w)])>>
           ELSE <<>>])

\* An extraction that reads the channels of a pixel in the order B, G, R.
ExtractBitsFromImage_reversed(arr, w, h, method, startBit, endBit) ==
    LET pos == GetPixelPositions(w, h, method)
    IN Flatten([r \in 1..Len(pos) |->
           Flatten([c1 \in 1..3 |->
               LET bit_index == Big(3 * (r - 1) + (c1 - 1))
               IN IF BigLE(startBit, bit_index) /\ BigLE(bit_index, endBit)
                  THEN <<LSB(arr[Idx(pos[r][1], pos[r][2], 3 - c1, w)])>>
                  ELSE <<>>])])

ExtractBitsFromImage(arr, w, h, method, startBit, endBit) ==
    LET pos == GetPixelPositions(w, h, method)
    IN Flatten([r \in 1..Len(pos) |-> ExtractStep(arr, pos, r, w, startBit, endBit)])

---------------------------------------------------------------------------
(* Values of the variables an operation does not use.                      *)

NoGrid == <<>>
NoHeaderFields ==
    /\ is_file = FALSE /\ filename = <<>> /\ start_pos = Big(0) /\ end_pos = Big(0)
    /\ header = <<>> /\ metadata = "none"
NoEmbed ==
    /\ bits = <<>> /\ error = "none" /\ start_bit = 0 /\ end_bit = 0 /\ extracted = <<>>

---------------------------------------------------------------------------
(* SpecPositions: calls of _get_pixel_positions(width, height, method).    *)

InitPositions ==
    /\ pc = "ready"
    /\ width \in 1..MaxW /\ height \in 1..MaxH
    /\ storage_method \in Methods
    /\ positions = <<>>
    /\ src_array = NoGrid /\ img_array = NoGrid
    /\ NoEmbed /\ NoHeaderFields
    /\ payload = <<>> /\ out = "none"

CallGetPixelPositions ==
    /\ pc = "ready"
    /\ positions' = GetPixelPositions(width, height, storage_method)
    /\ pc' = "positions"
    /\ UNCHANGED <<storage_method, gridVars, embedVars, headerVars, payload, out>>

NextPositions == CallGetPixelPositions

SpecPositions == InitPositions /\ [][NextPositions]_vars

\* ceil(a / 2)
CeilHalf(a) == (a + 1) \div 2

\* The closed-form number of coordinates of each traversal.
ExpectedCount(w, h, method) ==
    CASE method = 0 -> w * h
      [] method = 1 -> CeilHalf(w * h)
      [] method = 2 -> (w * h) \div 2
      [] method = 3 -> IF w > 1 /\ h > 1 THEN 2 * w + 2 * (h - 2)
                       ELSE IF h = 1 THEN w ELSE h

\* C7: for all W >= 1, H >= 1 the list returned by _get_pixel_positions has
\* W*H entries for ALL, ceil(W*H/2) for EVEN, floor(W*H/2) for ODD, and for
\* BORDER 2W + 2(H-2) when W > 1 and H > 1, W when H = 1, H when W = 1.
\* (That a repeated call returns the same list is how a pure function is
\* modelled and is not part of what is checked.)
C7_TraversalLength ==
    pc = "positions" => Len(positions) = ExpectedCount(width, height, storage_method)

\* C7 witness: a BORDER call on a one-row image, where the bottom row is
\* the top row and must not be counted twice.
C7_Witness ==
    /\ pc = "positions" /\ storage_method = 3
    /\ height = 1 /\ width = 3 /\ Len(positions) = 3

\* C10: no coordinate occurs twice in the returned list and every
\* coordinate (x, y) has 0 <= x < W and 0 <= y < H; for BORDER each corner
\* occurs exactly once, also when W = 1, H = 1 or H = 2.
C10_DuplicateFreeInBounds ==
    pc = "positions" =>
        /\ \A i, j \in 1..Len(positions) : positions[i] = positions[j] => i = j
        /\ \A i \in 1..Len(positions) :
               /\ 0 <= positions[i][1] /\ positions[i][1] < width
               /\ 0 <= positions[i][2] /\ positions[i][2] < height
        /\ storage_method = 3 =>
               \A cx \in {0, width - 1}, cy \in {0, height - 1} :
                   Cardinality({i \in 1..Len(positions) : positions[i] = <<cx, cy>>}) = 1

\* C10 witness: a BORDER call on a two-row image, whose bottom row holds
\* the bottom corners and whose side pass is empty.
C10_Witness ==
    /\ pc = "positions" /\ storage_method = 3
    /\ height = 2 /\ width = 3
    /\ positions = <<<<0, 0>>, <<0, 1>>, <<1, 0>>, <<1, 1>>, <<2, 0>>, <<2, 1>>>>

---------------------------------------------------------------------------
(* SpecHeader: _create_header on chosen fields, then _parse_header on the  *)
(* result or on a prefix of it.                                            *)

\* Code points used in filenames: NUL, 'a', U+00FF and U+010D (two bytes wide).
NameChars == {NUL, 97, 255, 269}

NameLengths ==
    {0, 1, 2, MAX_FILENAME_LENGTH - 1, MAX_FILENAME_LENGTH,
     MAX_FILENAME_LENGTH + 1, MAX_FILENAME_LENGTH + LongNameExtra}

\* n characters: `fill` repeated, then `last`
MkName(n, fill, last) == [i \in 1..n |-> IF i = n THEN last ELSE fill]

Names == {MkName(n, f, l) : n \in NameLengths, f \in NameChars, l \in NameChars}

\* File sizes in bytes; the last two straddle end_pos = 2^32.
PayloadSizes == {0, 1, 536870839, 536870840}

\* hide_file / hide_text: start_pos = HEADER_SIZE_BITS,
\* end_pos = start_pos + len(file_bits) - 1, for a payload of n bytes
HideStartPos == Big(HEADER_SIZE_BITS)
HideEndPos(n) == BigPred(BigAdd(BigTimes8(n), HEADER_SIZE_BITS))

\* Unsigned 32-bit samples: 0, 1, 579, 580, 2^16, 2^31, 2^32 - 1.
U32Samples == {Big(0), Big(1), Big(579), Big(580), <<1, 0>>, <<32768, 0>>, <<65535, 65535>>}

IsU32(v) == v[1] < 65536

PosPairs ==
    {<<HideStartPos, HideEndPos(n)>> : n \in PayloadSizes}
    \cup {<<v, <<65535, 65535>>>> : v \in U32Samples}
    \cup {<<<<32768, 0>>, Big(1)>>}

InitHeader ==
    /\ pc = "ready"
    /\ is_file \in BOOLEAN
    /\ storage_method \in Methods
    /\ filename \in Names
    /\ \E pp \in PosPairs : start_pos = pp[1] /\ end_pos = pp[2]
    /\ header = <<>> /\ metadata = "none"
    /\ width = 0 /\ height = 0 /\ src_array = NoGrid /\ img_array = NoGrid
    /\ positions = <<>>
    /\ NoEmbed
    /\ payload = <<>> /\ out = "none"

CallCreateHeader ==
    /\ pc = "ready"
    /\ header' = CreateHeader(is_file, storage_method, filename, start_pos, end_pos)
    /\ pc' = "header"
    /\ UNCHANGED <<is_file, filename, start_pos, end_pos, metadata, storage_method,
                   positions, gridVars, embedVars, payload, out>>

\* _parse_header on the first n bits of the header built before
CallParseHeader(n) ==
    /\ pc = "header"
    /\ bits' = Slice(header, 0, n)
    /\ IF ParseHeaderRaises(bits')
       THEN /\ error' = "HeaderTooShort"
            /\ pc' = "parse_failed"
            /\ UNCHANGED metadata
       ELSE /\ metadata' = ParseHeader(bits')
            /\ pc' = "parsed"
            /\ UNCHANGED error
    /\ UNCHANGED <<is_file, filename, start_pos, end_pos, header, storage_method,
                   positions, gridVars, start_bit, end_bit, extracted, payload, out>>

NextHeader ==
    \/ CallCreateHeader
    \/ \E n \in {HEADER_SIZE_BITS - 1, HEADER_SIZE_BITS, Len(header)} : CallParseHeader(n)

SpecHeader == InitHeader /\ [][NextHeader]_vars

SingleByte(text) == \A i \in 1..Len(text) : text[i] <= 255

\* The header H of C4: fields in range, parsed from the whole built header.
ValidHeaderParsed ==
    /\ pc = "parsed" /\ bits = header
    /\ storage_method \in Methods
    /\ IsU32(start_pos) /\ IsU32(end_pos)
    /\ SingleByte(filename)

OtherFieldsRoundTrip ==
    /\ metadata.is_file = is_file
    /\ metadata.storage_method = storage_method
    /\ metadata.start_pos = start_pos
    /\ metadata.end_pos = end_pos

\* C4 as stated: for every valid header H (is_file, method 0..3, unsigned
\* 32-bit start and end, filename of single-byte characters)
\* _parse_header(_create_header(H)) returns exactly H's fields when the
\* filename has at most 64 characters, and the first 64 characters of the
\* filename when it is longer.
C4_AsStated ==
    ValidHeaderParsed =>
        /\ OtherFieldsRoundTrip
        /\ metadata.filename = Slice(filename, 0, MAX_FILENAME_LENGTH)

\* C4 amended: the other four fields round-trip exactly; the parsed
\* filename is the first 64 characters of the filename with its trailing
\* NULs removed, hence equal to them exactly when they do not end in NUL.
C4_HeaderRoundTrip ==
    ValidHeaderParsed =>
        LET first64 == Slice(filename, 0, MAX_FILENAME_LENGTH)
            got == metadata.filename
        IN /\ OtherFieldsRoundTrip
           /\ Len(got) <= Len(first64)
           /\ got = SubSeq(first64, 1, Len(got))
           /\ \A i \in (Len(got) + 1)..Len(first64) : first64[i] = NUL
           /\ got # <<>> => got[Len(got)] # NUL
           /\ (first64 = <<>> \/ first64[Len(first64)] # NUL) => got = first64

\* C4 witness: a 100-character name of single-byte characters was built
\* into a header and parsed back as its first 64 characters, with a start
\* position above 2^31.
C4_Witness ==
    /\ ValidHeaderParsed
    /\ Len(filename) = MAX_FILENAME_LENGTH + LongNameExtra
    /\ Len(metadata.filename) = MAX_FILENAME_LENGTH
    /\ metadata.start_pos = <<32768, 0>>

\* The (start_pos, end_pos) pairs hide_file and hide_text hand over.
FromHide ==
    /\ start_pos = HideStartPos
    /\ \E n \in PayloadSizes : end_pos = HideEndPos(n)

\* C9: for every is_file, method in 0..3, filename (any length, any
\* characters) and every (start_pos, end_pos) hide_file / hide_text can
\* produce, _create_header returns exactly 580 bits, with the fields at
\* offsets 0 (1 bit), 1 (3 bits), 4 (512 bits), 516 and 548 (32 bits each).
C9_FixedHeaderSize ==
    (pc = "header" /\ FromHide) =>
        /\ Len(header) = 580
        /\ header[1] = (IF is_file THEN 1 ELSE 0)
        /\ IntOfBits(SubSeq(header, 2, 4)) = storage_method
        /\ BitsToText(SubSeq(header, 5, 516))
               = LJust(Slice(filename, 0, MAX_FILENAME_LENGTH), MAX_FILENAME_LENGTH, NUL)
        /\ BigOfBits32(SubSeq(header, 517, 548)) = start_pos
        /\ BigOfBits32(SubSeq(header, 549, 580)) = end_pos

\* C9 restricted to single-byte filenames and end positions below 2^32
\* (not a claim's formula; kept to show where C9 does hold).
FixedHeaderSizeSingleByte ==
    (pc = "header" /\ FromHide /\ SingleByte(filename) /\ IsU32(end_pos)) =>
        Len(header) = HEADER_SIZE_BITS

---------------------------------------------------------------------------
(* SpecEmbed: _embed_bits_in_image on a small array, then                  *)
(* _extract_bits_from_image of a range of the embedded bits.               *)

\* Pixel arrays of n channel values: all 0, all 255, and mixed values.
GridPatterns(n) ==
    {[i \in 1..n |-> 0], [i \in 1..n |-> 255], [i \in 1..n |-> (37 * i + 11) % 256]}

\* Bit strings of length n: zeros, 1010.., 0110011..
BitPatterns(n) ==
    {[i \in 1..n |-> 0], [i \in 1..n |-> i % 2], [i \in 1..n |-> (i \div 2) % 2]}

\* 3 * len(positions)
Capacity(w, h, method) == 3 * Len(GetPixelPositions(w, h, method))

InitEmbed ==
    /\ pc = "ready"
    /\ width \in 1..EmbedMaxW /\ height \in 1..EmbedMaxH
    /\ storage_method \in Methods
    /\ src_array \in GridPatterns(width * height * 3)
    /\ img_array = src_array
    /\ positions = <<>>
    /\ NoEmbed /\ NoHeaderFields
    /\ payload = <<>> /\ out = "none"

CallEmbedBits(bs) ==
    /\ pc = "ready"
    /\ bits' = bs
    /\ IF EmbedRaises(width, height, bs, storage_method)
       THEN /\ error' = CapacityError(width, height, bs, storage_method)
            /\ pc' = "embed_failed"
            /\ UNCHANGED img_array
       ELSE /\ img_array' = EmbedBitsInImage(img_array, width, height, bs, storage_method)
            /\ pc' = "embedded"
            /\ UNCHANGED error
    /\ UNCHANGED <<width, height, src_array, storage_method, positions,
                   start_bit, end_bit, extracted, headerVars, payload, out>>

CallExtractBits(s, e) ==
    /\ pc = "embedded"
    /\ start_bit' = s /\ end_bit' = e
    /\ extracted' = ExtractBitsFromImage(img_array, width, height, storage_method,
                                         Big(s), Big(e))
    /\ pc' = "extracted"
    /\ UNCHANGED <<gridVars, storage_method, positions, bits, error,
                   headerVars, payload, out>>

NextEmbed ==
    \/ \E n \in 0..(Capacity(width, height, storage_method) + 1) :
           \E bs \in BitPatterns(n) : CallEmbedBits(bs)
    \/ \E s \in 0..(Len(bits) - 1) :
           \E e \in (s..Min(Len(bits) - 1, s + MaxSpan)) \cup {Len(bits) - 1} :
               CallExtractBits(s, e)

SpecEmbed == InitEmbed /\ [][NextEmbed]_vars

\* C5: embedding exactly 3 * |positions(W,H,method)| bits succeeds;
\* embedding one bit more fails with the insufficient-capacity error, whose
\* required count is len(bits) and whose available count is
\* 3 * |positions(W,H,method)|.
C5_CapacityBoundary ==
    LET cap == Capacity(width, height, storage_method)
    IN /\ (pc \in {"embedded", "embed_failed"} /\ Len(bits) = cap) => pc = "embedded"
       /\ (pc \in {"embedded", "embed_failed"} /\ Len(bits) = cap + 1) =>
              /\ pc = "embed_failed"
              /\ error = [kind |-> "InsufficientCapacity",
                          required |-> Len(bits), available |-> cap]
              /\ img_array = src_array

\* C5 witness: an EVEN embed into a 3x1 array (2 pixels, 6 slots) refused
\* for 7 bits.
C5_Witness ==
    /\ pc = "embed_failed" /\ width = 3 /\ height = 1 /\ storage_method = 1
    /\ Len(bits) = 7 /\ error.available = 6

\* The array indices of the first n slots of the traversal.
UsedSlots(w, h, method, n) ==
    LET pos == GetPixelPositions(w, h, method)
    IN {Idx(pos[rc[1]][1], pos[rc[1]][2], rc[2], w) :
            rc \in {q \in (1..Len(pos)) \X (0..2) : 3 * (q[1] - 1) + q[2] < n}}

\* C6: after a successful embed of n bits, bits 1..7 of every channel value
\* are as before, and every channel slot that is not one of the first n
\* slots of the traversal has the value it had in the source array.
C6_LsbIsolation ==
    pc = "embedded" =>
        LET used == UsedSlots(width, height, storage_method, Len(bits))
        IN /\ Len(img_array) = Len(src_array)
           /\ \A i \in 1..Len(img_array) :
                  /\ img_array[i] \div 2 = src_array[i] \div 2
                  /\ i \notin used => img_array[i] = src_array[i]

\* C6 witness: 4 bits embedded with ODD into a 3x2 array of mixed values:
\* the second used pixel keeps two channels, and LSBs did change.
C6_Witness ==
    /\ pc = "embedded" /\ width = 3 /\ height = 2 /\ storage_method = 2
    /\ Len(bits) = 4
    /\ img_array # src_array
    /\ \E i \in 1..Len(src_array) : src_array[i] \notin {0, 255}

\* C8: for every bit string b that fits and all 0 <= s <= e < len(b),
\* extracting [s, e] from the array b was embedded in, with the same
\* method, returns exactly b[s..e].
C8_AddressAlignment ==
    pc = "extracted" => extracted = SubSeq(bits, start_bit + 1, end_bit + 1)

\* C8 witness: a range that starts in the last channel of one pixel and
\* ends in the next pixel of the traversal, read back from a BORDER embed.
C8_Witness ==
    /\ pc = "extracted" /\ storage_method = 3 /\ width = 3 /\ height = 2
    /\ start_bit = 2 /\ end_bit = 3 /\ Len(bits) > 6
    /\ extracted = <<1, 0>>

---------------------------------------------------------------------------
(* Spec: hide_file / hide_text on a source image, and extract_file on the  *)
(* source image or on the stego image a successful hide produced.          *)

GridSizes == {<<1, 1>>, <<SmallW, SmallH>>, <<MidW, MidH>>, <<GridW, GridH>>}

\* Source arrays of n channel values: all 0, all 255, and one with R and G
\* even and B odd.
SourcePatterns(n) ==
    {[i \in 1..n |-> 0], [i \in 1..n |-> 255],
     [i \in 1..n |-> (2 * i + (IF (i - 1) % 3 = 2 THEN 1 ELSE 0)) % 256]}

\* Channels whose LSB is chosen freely in the source: G and B of the first
\* pixel, R of the second and R of the third pixel of the first row.
FreeIdx == {2, 3, 4, 7}

WithLSBs(g, ones) ==
    [i \in 1..Len(g) |-> IF i \in FreeIdx
                         THEN SetLSB(g[i], IF i \in ones THEN 1 ELSE 0)
                         ELSE g[i]]

\* os.path.basename(file_path): "a", "hb" and a 64-character name
FileNames == {<<97>>, <<104, 98>>, [i \in 1..MAX_FILENAME_LENGTH |-> 97 + (i % 2)]}

\* file contents: empty, one byte, two bytes
FileContents == {<<>>, <<165>>, <<72, 105>>}

\* texts: "", "A"
Texts == {<<>>, <<65>>}

\* "user_text.txt"
UserTextName == <<117, 115, 101, 114, 95, 116, 101, 120, 116, 46, 116, 120, 116>>

Init ==
    /\ pc = "ready"
    /\ \E sz \in GridSizes : width = sz[1] /\ height = sz[2]
    /\ \E g \in SourcePatterns(width * height * 3), ones \in SUBSET FreeIdx :
           src_array = WithLSBs(g, ones)
    /\ img_array = src_array
    /\ storage_method = 0
    /\ positions = <<>>
    /\ NoEmbed /\ NoHeaderFields
    /\ payload = <<>> /\ out = "none"

\* hide_file(image, file, output, storage_method)
HideFile(method, name, file_data) ==
    /\ pc = "ready"
    /\ LET file_bits == FileToBits(file_data)
           startPos == Big(HEADER_SIZE_BITS)
           endPos == BigPred(BigAdd(startPos, Len(file_bits)))
           hdr == CreateHeader(TRUE, method, name, startPos, endPos)
           all_bits == hdr \o file_bits
       IN /\ storage_method' = method
          /\ is_file' = TRUE /\ filename' = name /\ payload' = file_data
          /\ start_pos' = startPos /\ end_pos' = endPos
          /\ header' = hdr /\ bits' = all_bits
          /\ IF EmbedRaises(width, height, all_bits, method)
             THEN /\ error' = CapacityError(width, height, all_bits, method)
                  /\ pc' = "hide_failed"
                  /\ UNCHANGED img_array
             ELSE /\ img_array' = EmbedBitsInImage(img_array, width, height, all_bits, method)
                  /\ pc' = "hidden"
                  /\ UNCHANGED error
    /\ UNCHANGED <<width, height, src_array, positions, start_bit, end_bit,
                   extracted, metadata, out>>

\* hide_text(image, text, output, storage_method)
HideText(method, text) ==
    /\ pc = "ready"
    /\ LET text_bits == TextToBits(text)
           startPos == Big(HEADER_SIZE_BITS)
           endPos == BigPred(BigAdd(startPos, Len(text_bits)))
           hdr == CreateHeader(FALSE, method, UserTextName, startPos, endPos)
           total_bits == Len(hdr) + Len(text_bits)
           available_bits == Len(GetPixelPositions(width, height, method)) * 3
           all_bits == hdr \o text_bits
       IN /\ storage_method' = method
          /\ is_file' = FALSE /\ filename' = UserTextName /\ payload' = text
          /\ start_pos' = startPos /\ end_pos' = endPos
          /\ header' = hdr /\ bits' = all_bits
          /\ IF total_bits > available_bits
             THEN /\ error' = [kind |-> "TextTooLong", required |-> total_bits,
                               available |-> available_bits]
                  /\ pc' = "hide_failed"
                  /\ UNCHANGED img_array
             ELSE IF EmbedRaises(width, height, all_bits, method)
             THEN /\ error' = CapacityError(width, height, all_bits, method)
                  /\ pc' = "hide_failed"
                  /\ UNCHANGED img_array
             ELSE /\ img_array' = EmbedBitsInImage(img_array, width, height, all_bits, method)
                  /\ pc' = "hidden"
                  /\ UNCHANGED error
    /\ UNCHANGED <<width, height, src_array, positions, start_bit, end_bit,
                   extracted, metadata, out>>

\* One trial of the detection loop: the header read with test_method
\* parses and declares test_method.
TrialAccepts(arr, w, h, test_method) ==
    LET test_header == ExtractBitsFromImage(arr, w, h, test_method,
                                            Big(0), Big(HEADER_SIZE_BITS - 1))
    IN /\ ~ParseHeaderRaises(test_header)
       /\ ParseHeader(test_header).storage_method = test_method

\* for test_method in range(4): ... break on the first accepted trial.
\* The method accepted, or 4 when the loop ends with header_bits None.
RECURSIVE DetectLoop(_, _, _, _)
DetectLoop(arr, w, h, test_method) ==
    IF test_method >= 4 THEN 4
    ELSE IF TrialAccepts(arr, w, h, test_method) THEN test_method
    ELSE DetectLoop(arr, w, h, test_method + 1)

\* extract_file(stego_image, output_dir): what it found, or the error
ExtractFileResult(arr, w, h) ==
    LET used_method == DetectLoop(arr, w, h, 0)
    IN IF used_method = 4
       THEN [ok |-> FALSE, error |-> "NoValidHeader"]
       ELSE LET header_bits == ExtractBitsFromImage(arr, w, h, used_method,
                                                    Big(0), Big(HEADER_SIZE_BITS - 1))
                md == ParseHeader(header_bits)
                data_bits == ExtractBitsFromImage(arr, w, h, used_method,
                                                  md.start_pos, md.end_pos)
            IN [ok |-> TRUE,
                used_method |-> used_method,
                is_file |-> md.is_file,
                filename |-> md.filename,
                start_pos |-> md.start_pos,
                end_pos |-> md.end_pos,
                data |-> IF md.is_file THEN BitsToFile(data_bits)
                         ELSE BitsToText(data_bits)]

\* extract_file on the source image (nothing hidden) or on the stego image
ExtractFile ==
    /\ pc \in {"ready", "hidden"}
    /\ out' = ExtractFileResult(img_array, width, height)
    /\ pc' = "extracted"
    /\ UNCHANGED <<gridVars, storage_method, positions, embedVars, headerVars, payload>>

Next ==
    \/ \E m \in Methods, name \in FileNames, data \in FileContents : HideFile(m, name, data)
    \/ \E m \in Methods, text \in Texts : HideText(m, text)
    \/ ExtractFile

Spec == Init /\ [][Next]_vars

\* A successful hide_file / hide_text produced the image extract_file read.
Hidden == header # <<>>

\* C1: whenever hide_file's embedding of header + payload with method M
\* succeeds (any M, any source array, a filename of at most 64 single-byte
\* characters with no trailing NUL, any payload including the empty one),
\* extract_file on the resulting array yields is_file = true, the embedded
\* filename and the embedded payload bytes.
C1_FileRoundTrip ==
    (pc = "extracted" /\ Hidden /\ is_file) =>
        /\ out.ok
        /\ out.is_file
        /\ out.filename = filename
        /\ out.data = payload

\* C2: if a header declaring M was embedded with method M (any M, any
\* source array, any header content), the detection loop of extract_file
\* ends with used_method = M.
C2_DetectsMethod ==
    (pc = "extracted" /\ Hidden) =>
        /\ out.ok
        /\ out.used_method = storage_method

\* Where C1 and C2 do hold: ALL is the first trial, so an ALL embed is
\* always read back with ALL (not a claim's formula).
RoundTripUnderALL ==
    (pc = "extracted" /\ Hidden /\ storage_method = 0) =>
        /\ out.ok /\ out.used_method = 0
        /\ out.is_file = is_file
        /\ out.filename = filename
        /\ out.data = payload

\* C3 as stated: on every array on which no embedding was performed the
\* detection loop accepts no trial method and extraction fails with the
\* no-valid-header error.
C3_AsStated ==
    (pc = "extracted" /\ ~Hidden) =>
        /\ ~out.ok
        /\ out.error = "NoValidHeader"

\* The three LSBs at flat addresses 1..3 of trial method t's traversal, as
\* a number: the channels are G and B of the traversal's first pixel and R
\* of its second pixel, located here by their row-major array indices.
MethodFieldAt(arr, w, h, t) ==
    LET g == CASE t = 2 -> 5 [] OTHER -> 2
        b == CASE t = 2 -> 6 [] OTHER -> 3
        r == CASE t = 0 -> 4
               [] t = 1 -> 7
               [] t = 2 -> 10
               [] t = 3 -> IF h > 1 THEN (h - 1) * w * 3 + 1 ELSE 4
    IN 4 * (arr[g] % 2) + 2 * (arr[b] % 2) + (arr[r] % 2)

\* Trial t finds 580 slots and reads its own code in the method field.
SelfConsistent(arr, w, h, t) ==
    /\ 3 * ExpectedCount(w, h, t) >= 580
    /\ MethodFieldAt(arr, w, h, t) = t

\* C3 amended: on an array on which no embedding was performed, extraction
\* fails with the no-valid-header error exactly when no trial method t has
\* at least 580 slots and the LSBs at flat addresses 1..3 of its traversal
\* spelling t; otherwise the first such t is accepted and a payload is
\* produced.
C3_DetectionRejects ==
    (pc = "extracted" /\ ~Hidden) =>
        LET good == {t \in Methods : SelfConsistent(img_array, width, height, t)}
        IN /\ out.ok <=> good # {}
           /\ ~out.ok => out.error = "NoValidHeader"
           /\ out.ok => /\ out.used_method \in good
                        /\ \A t \in good : out.used_method <= t

\* C3 witness: an untouched array with room for a header under each of the
\* four methods, on which all four trials were rejected.
C3_Witness ==
    /\ pc = "extracted" /\ ~Hidden
    /\ \A t \in Methods : Capacity(width, height, t) >= HEADER_SIZE_BITS
    /\ ~out.ok /\ out.error = "NoValidHeader"

===========================================================================
